---- MODULE Spec2Model ----
(***************************************************************************)
(* csv2json (src/main.rs): one run of main.  A line of text is a sequence  *)
(* of one-character strings, so that split(',') and replace("\n", "") are  *)
(* computed on characters as the program computes them.  Column names and  *)
(* values are character sequences too; a HashMap is a function, absent     *)
(* keys being outside its DOMAIN.                                          *)
(*                                                                         *)
(* Not modelled: `pretty` (text layout of the JSON only; the JSON document *)
(* is modelled at the level of objects, arrays and strings) and the        *)
(* Vec::with_capacity hint of line 152 (no observable effect).             *)
(***************************************************************************)
EXTENDS Integers, Sequences, FiniteSets, TLC

VARIABLES format, allow_anomalies, eol, pc, headers, result, consumed,
          diag, err, json, sink

vars == <<format, allow_anomalies, eol, pc, headers, result, consumed,
          diag, err, json, sink>>

\* Longest input stream explored, in lines (header line included).
MaxLines == 3

(***************************************************************************)
(* Constants of the program (lines 10-15).                                 *)
(***************************************************************************)
FORMAT_NAME_LIST_OF_MAPS ==
    <<"l", "i", "s", "t", "-", "o", "f", "-", "m", "a", "p", "s">>
FORMAT_NAME_LIST_OF_MAPS_SHORTENED == <<"l", "o", "m">>
FORMAT_NAME_MAP_OF_LISTS ==
    <<"m", "a", "p", "-", "o", "f", "-", "l", "i", "s", "t", "s">>
FORMAT_NAME_MAP_OF_LISTS_SHORTENED == <<"m", "o", "l">>

(***************************************************************************)
(* The inputs explored.                                                    *)
(***************************************************************************)
\* Values of --format: the six names of _get_str_map and other strings.
FormatStrings ==
    { FORMAT_NAME_LIST_OF_MAPS, FORMAT_NAME_LIST_OF_MAPS_SHORTENED, <<"l">>,
      FORMAT_NAME_MAP_OF_LISTS, FORMAT_NAME_MAP_OF_LISTS_SHORTENED, <<"m">>,
      << >>, <<"L">>, <<"L", "O", "M">>, <<"M", "o", "l">>, <<"l", "o">>,
      <<"m", "a", "p", "-", "o", "f", "-", "l", "i", "s", "t">>,
      <<"l", "i", "s", "t", "_", "o", "f", "_", "m", "a", "p", "s">> }

\* Line terminators of an input file: LF or CRLF.
Terminators == { <<"\n">>, <<"\r", "\n">> }

\* Line contents (terminator excluded): the empty line, lines of one, two
\* and three fields, with equal and with distinct fields.
LineBodies ==
    { << >>, <<"a">>, <<"b">>, <<"a", ",", "a">>, <<"a", ",", "b">>,
      <<"b", ",", "a">>, <<"a", ",", "b", ",", "b">> }

(***************************************************************************)
(* Values.                                                                 *)
(***************************************************************************)
None == [tag |-> "None"]
Some(v) == [tag |-> "Some", value |-> v]

\* HashMap::new() and Vec::new().
EmptyMap == << >>
MapOfLists(m) == [tag |-> "MapOfLists", value |-> m]
ListOfMaps(l) == [tag |-> "ListOfMaps", value |-> l]

\* Mutant: a key already present keeps its value (entry().or_insert).
Insert_keep_first(m, k, v) ==
    [x \in (DOMAIN m) \cup {k} |-> IF x \in DOMAIN m THEN m[x] ELSE v]

\* HashMap::insert.
Insert(m, k, v) == [x \in (DOMAIN m) \cup {k} |-> IF x = k THEN v ELSE m[x]]

\* An anyhow error / an I/O error, carrying its message; format! is the
\* tuple of its pieces.
Error(msg) == [tag |-> "Err", msg |-> msg]
IoError(op) == Error(<<"I/O error: ", op>>)

(***************************************************************************)
(* str::split(',') (line 94) and str::replace("\n", "") (lines 135, 156,   *)
(* 194).                                                                   *)
(***************************************************************************)
RECURSIVE split(_)
split(s) ==
    IF \E k \in 1..Len(s) : s[k] = ","
    THEN LET k == CHOOSE j \in 1..Len(s) :
                     /\ s[j] = ","
                     /\ \A h \in 1..(j - 1) : s[h] # ","
         IN  <<SubSeq(s, 1, k - 1)>> \o split(SubSeq(s, k + 1, Len(s)))
    ELSE <<s>>

replace_newline(token) == SelectSeq(token, LAMBDA c : c # "\n")

(***************************************************************************)
(* CsvResult::_get_str_map and CsvResult::from_format_str (lines 23-46).   *)
(***************************************************************************)
\* Mutant: the one-letter names are taken from the other constant.
get_str_map_swapped ==
    LET m1 == Insert(EmptyMap, FORMAT_NAME_LIST_OF_MAPS, ListOfMaps(<< >>))
        m2 == Insert(m1, FORMAT_NAME_LIST_OF_MAPS_SHORTENED, ListOfMaps(<< >>))
        m3 == Insert(m2, SubSeq(FORMAT_NAME_MAP_OF_LISTS, 1, 1), ListOfMaps(<< >>))
        m4 == Insert(m3, FORMAT_NAME_MAP_OF_LISTS, MapOfLists(EmptyMap))
        m5 == Insert(m4, FORMAT_NAME_MAP_OF_LISTS_SHORTENED, MapOfLists(EmptyMap))
        m6 == Insert(m5, SubSeq(FORMAT_NAME_LIST_OF_MAPS, 1, 1), MapOfLists(EmptyMap))
    IN  m6

get_str_map ==
    LET m1 == Insert(EmptyMap, FORMAT_NAME_LIST_OF_MAPS, ListOfMaps(<< >>))
        m2 == Insert(m1, FORMAT_NAME_LIST_OF_MAPS_SHORTENED, ListOfMaps(<< >>))
        m3 == Insert(m2, SubSeq(FORMAT_NAME_LIST_OF_MAPS, 1, 1), ListOfMaps(<< >>))
        m4 == Insert(m3, FORMAT_NAME_MAP_OF_LISTS, MapOfLists(EmptyMap))
        m5 == Insert(m4, FORMAT_NAME_MAP_OF_LISTS_SHORTENED, MapOfLists(EmptyMap))
        m6 == Insert(m5, SubSeq(FORMAT_NAME_MAP_OF_LISTS, 1, 1), MapOfLists(EmptyMap))
    IN  m6

from_format_str(s) ==
    LET map == get_str_map
    IN  IF s \in DOMAIN map
        THEN [ok |-> TRUE, value |-> map[s]]
        ELSE [ok |-> FALSE, value |-> Error(<<"Unknown format string: ", s>>)]

(***************************************************************************)
(* process_headers (lines 131-140): index i |-> i-th token, "\n" removed.  *)
(***************************************************************************)
process_headers(tokens) ==
    [i \in 0..(Len(tokens) - 1) |-> replace_newline(tokens[i + 1])]

\* HashMap::len of a HeaderMap.
len(m) == Cardinality(DOMAIN m)

(***************************************************************************)
(* The messages of lines 159/197 and 172/209.                              *)
(***************************************************************************)
OverflowMsg(i) == <<"Found item outside of expected bounds; index: ", i>>
UnderflowMsg(hlen, i) ==
    <<"Line too short; length: ", hlen, "; expected: ", i>>

\* eprintln!("{}", msg) and eprintln!("Warning: {}", msg).
Eprintln(prefix, msg) == [prefix |-> prefix, msg |-> msg]

(***************************************************************************)
(* process_line_for_map_of_lists (lines 142-182).  The loop state is the   *)
(* index i, the map mutated in place and the lines written to stderr; a    *)
(* bail! leaves the map as mutated so far.                                 *)
(***************************************************************************)
RECURSIVE mol_token_loop(_, _, _, _, _, _)
mol_token_loop(tokens, i, hdrs, map_of_lists, allow, out) ==
    IF i = Len(tokens)
    THEN [i |-> i, map |-> map_of_lists, out |-> out, err |-> None]
    ELSE IF i \in DOMAIN hdrs
    THEN LET column_name == hdrs[i]
             m1 == IF column_name \notin DOMAIN map_of_lists
                   THEN Insert(map_of_lists, column_name, << >>)
                   ELSE map_of_lists
             m2 == [m1 EXCEPT ![column_name] =
                        Append(@, replace_newline(tokens[i + 1]))]
         IN  mol_token_loop(tokens, i + 1, hdrs, m2, allow, out)
    ELSE LET msg == OverflowMsg(i)
         IN  IF allow
             THEN mol_token_loop(tokens, i + 1, hdrs, map_of_lists, allow,
                                 Append(out, Eprintln("", msg)))
             ELSE [i |-> i, map |-> map_of_lists, out |-> out,
                   err |-> Error(msg)]

\* Mutant: values are put at the front of their list (insert(0, _) for
\* push).
process_line_for_map_of_lists_front(tokens, hdrs, map_of_lists, allow) ==
    LET r == mol_token_loop(tokens, 0, hdrs, EmptyMap, allow, << >>)
        old(c) == IF c \in DOMAIN map_of_lists THEN map_of_lists[c] ELSE << >>
        new(c) == IF c \in DOMAIN r.map THEN r.map[c] ELSE << >>
    IN  [ok |-> r.err = None /\ (r.i >= len(hdrs) \/ allow),
         value |-> [c \in (DOMAIN map_of_lists) \cup (DOMAIN r.map) |->
                       new(c) \o old(c)],
         out |-> r.out,
         err |-> IF r.err # None THEN r.err
                 ELSE IF r.i < len(hdrs) /\ ~allow
                 THEN Error(UnderflowMsg(len(hdrs), r.i))
                 ELSE None]

\* Mutant: allow_anomalies is not consulted for a token beyond the header.
process_line_for_map_of_lists_bail(tokens, hdrs, map_of_lists, allow) ==
    LET r == mol_token_loop(tokens, 0, hdrs, map_of_lists, FALSE, << >>)
    IN  IF r.err # None
        THEN [ok |-> FALSE, value |-> r.map, out |-> r.out, err |-> r.err]
        ELSE IF r.i < len(hdrs)
        THEN LET msg == UnderflowMsg(len(hdrs), r.i)
             IN  IF allow
                 THEN [ok |-> TRUE, value |-> r.map,
                       out |-> Append(r.out, Eprintln("Warning: ", msg)),
                       err |-> None]
                 ELSE [ok |-> FALSE, value |-> r.map, out |-> r.out,
                       err |-> Error(msg)]
        ELSE [ok |-> TRUE, value |-> r.map, out |-> r.out, err |-> None]

\* Mutant: a tolerated short line pads the columns it did not reach.
RECURSIVE mol_pad(_, _, _)
mol_pad(i, hdrs, map_of_lists) ==
    IF i \notin DOMAIN hdrs
    THEN map_of_lists
    ELSE LET m1 == IF hdrs[i] \notin DOMAIN map_of_lists
                   THEN Insert(map_of_lists, hdrs[i], << >>)
                   ELSE map_of_lists
         IN  mol_pad(i + 1, hdrs, [m1 EXCEPT ![hdrs[i]] = Append(@, << >>)])

process_line_for_map_of_lists_padding(tokens, hdrs, map_of_lists, allow) ==
    LET r == mol_token_loop(tokens, 0, hdrs, map_of_lists, allow, << >>)
    IN  IF r.err # None
        THEN [ok |-> FALSE, value |-> r.map, out |-> r.out, err |-> r.err]
        ELSE IF r.i < len(hdrs)
        THEN LET msg == UnderflowMsg(len(hdrs), r.i)
             IN  IF allow
                 THEN [ok |-> TRUE, value |-> mol_pad(r.i, hdrs, r.map),
                       out |-> Append(r.out, Eprintln("Warning: ", msg)),
                       err |-> None]
                 ELSE [ok |-> FALSE, value |-> r.map, out |-> r.out,
                       err |-> Error(msg)]
        ELSE [ok |-> TRUE, value |-> r.map, out |-> r.out, err |-> None]

process_line_for_map_of_lists(tokens, hdrs, map_of_lists, allow) ==
    LET r == mol_token_loop(tokens, 0, hdrs, map_of_lists, allow, << >>)
    IN  IF r.err # None
        THEN [ok |-> FALSE, value |-> r.map, out |-> r.out, err |-> r.err]
        ELSE IF r.i < len(hdrs)
        THEN LET msg == UnderflowMsg(len(hdrs), r.i)
             IN  IF allow
                 THEN [ok |-> TRUE, value |-> r.map,
                       out |-> Append(r.out, Eprintln("Warning: ", msg)),
                       err |-> None]
                 ELSE [ok |-> FALSE, value |-> r.map, out |-> r.out,
                       err |-> Error(msg)]
        ELSE [ok |-> TRUE, value |-> r.map, out |-> r.out, err |-> None]

(***************************************************************************)
(* process_line_for_list_of_maps (lines 184-221).  The record is a local   *)
(* map, pushed at line 218 only when no bail! was taken.                   *)
(***************************************************************************)
RECURSIVE lom_token_loop(_, _, _, _, _, _)
lom_token_loop(tokens, i, hdrs, map, allow, out) ==
    IF i = Len(tokens)
    THEN [i |-> i, map |-> map, out |-> out, err |-> None]
    ELSE IF i \in DOMAIN hdrs
    THEN lom_token_loop(tokens, i + 1, hdrs,
                        Insert(map, hdrs[i], replace_newline(tokens[i + 1])),
                        allow, out)
    ELSE LET msg == OverflowMsg(i)
         IN  IF allow
             THEN lom_token_loop(tokens, i + 1, hdrs, map, allow,
                                 Append(out, Eprintln("Warning: ", msg)))
             ELSE [i |-> i, map |-> map, out |-> out, err |-> Error(msg)]

\* Mutant: the record is put at the front of the list (insert(0, _) for
\* push).
process_line_for_list_of_maps_front(tokens, hdrs, list_of_maps, allow) ==
    LET r == lom_token_loop(tokens, 0, hdrs, EmptyMap, allow, << >>)
    IN  IF r.err # None
        THEN [ok |-> FALSE, value |-> list_of_maps, out |-> r.out,
              err |-> r.err]
        ELSE IF r.i < len(hdrs)
        THEN LET msg == UnderflowMsg(len(hdrs), r.i)
             IN  IF allow
                 THEN [ok |-> TRUE, value |-> <<r.map>> \o list_of_maps,
                       out |-> Append(r.out, Eprintln("Warning: ", msg)),
                       err |-> None]
                 ELSE [ok |-> FALSE, value |-> list_of_maps, out |-> r.out,
                       err |-> Error(msg)]
        ELSE [ok |-> TRUE, value |-> <<r.map>> \o list_of_maps,
              out |-> r.out, err |-> None]

\* Mutant: the check of line 208 is missing.
process_line_for_list_of_maps_no_check(tokens, hdrs, list_of_maps, allow) ==
    LET r == lom_token_loop(tokens, 0, hdrs, EmptyMap, allow, << >>)
    IN  IF r.err # None
        THEN [ok |-> FALSE, value |-> list_of_maps, out |-> r.out,
              err |-> r.err]
        ELSE [ok |-> TRUE, value |-> Append(list_of_maps, r.map),
              out |-> r.out, err |-> None]

\* Mutant: a tolerated short line returns before the push of line 218.
process_line_for_list_of_maps_no_push(tokens, hdrs, list_of_maps, allow) ==
    LET r == lom_token_loop(tokens, 0, hdrs, EmptyMap, allow, << >>)
    IN  IF r.err # None
        THEN [ok |-> FALSE, value |-> list_of_maps, out |-> r.out,
              err |-> r.err]
        ELSE IF r.i < len(hdrs)
        THEN LET msg == UnderflowMsg(len(hdrs), r.i)
             IN  IF allow
                 THEN [ok |-> TRUE, value |-> list_of_maps,
                       out |-> Append(r.out, Eprintln("Warning: ", msg)),
                       err |-> None]
                 ELSE [ok |-> FALSE, value |-> list_of_maps, out |-> r.out,
                       err |-> Error(msg)]
        ELSE [ok |-> TRUE, value |-> Append(list_of_maps, r.map),
              out |-> r.out, err |-> None]

process_line_for_list_of_maps(tokens, hdrs, list_of_maps, allow) ==
    LET r == lom_token_loop(tokens, 0, hdrs, EmptyMap, allow, << >>)
    IN  IF r.err # None
        THEN [ok |-> FALSE, value |-> list_of_maps, out |-> r.out,
              err |-> r.err]
        ELSE IF r.i < len(hdrs)
        THEN LET msg == UnderflowMsg(len(hdrs), r.i)
             IN  IF allow
                 THEN [ok |-> TRUE, value |-> Append(list_of_maps, r.map),
                       out |-> Append(r.out, Eprintln("Warning: ", msg)),
                       err |-> None]
                 ELSE [ok |-> FALSE, value |-> list_of_maps, out |-> r.out,
                       err |-> Error(msg)]
        ELSE [ok |-> TRUE, value |-> Append(list_of_maps, r.map),
              out |-> r.out, err |-> None]

(***************************************************************************)
(* to_json_str (lines 113-129): the JSON document serde_json writes for a  *)
(* HashMap<String, Vec<String>> (an object of arrays of strings) or for a  *)
(* Vec<HashMap<String, String>> (an array of objects of strings).  These   *)
(* types always serialize, so the `?` of lines 117-124 is never taken.     *)
(***************************************************************************)
JsonString(s) == [type |-> "string", chars |-> s]
JsonArray(items) == [type |-> "array", items |-> items]
JsonObject(members) == [type |-> "object", members |-> members]

to_json_str(res) ==
    IF res.tag = "MapOfLists"
    THEN JsonObject({ <<k, JsonArray([n \in 1..Len(res.value[k]) |->
                                         JsonString(res.value[k][n])])>> :
                      k \in DOMAIN res.value })
    ELSE JsonArray([n \in 1..Len(res.value) |->
                      JsonObject({ <<k, JsonString(res.value[n][k])>> :
                                   k \in DOMAIN res.value[n] })])

(***************************************************************************)
(* The body of the while loop of process_input (lines 93-108) for the data *)
(* lines, as a function of the lines: the result after the lines, None     *)
(* when a line returns an error.                                           *)
(***************************************************************************)
RECURSIVE process_data_lines(_, _, _, _)
process_data_lines(res, hdrs, lines, allow) ==
    IF lines = << >> \/ res = None
    THEN res
    ELSE LET tokens == split(Head(lines))
             r == IF res.tag = "MapOfLists"
                  THEN process_line_for_map_of_lists(tokens, hdrs, res.value, allow)
                  ELSE process_line_for_list_of_maps(tokens, hdrs, res.value, allow)
             next == IF ~r.ok THEN None
                     ELSE IF res.tag = "MapOfLists" THEN MapOfLists(r.value)
                     ELSE ListOfMaps(r.value)
         IN  process_data_lines(next, hdrs, Tail(lines), allow)

(***************************************************************************)
(* The input stream as read_line (lines 223-237) sees it: BufRead's        *)
(* read_line returns the next line with its terminator, the last line of   *)
(* the stream possibly without one, 0 bytes at end of stream, or an error. *)
(***************************************************************************)
Terminated(line) == Len(line) > 0 /\ line[Len(line)] = "\n"

NextLines ==
    { b \o eol : b \in LineBodies } \cup (LineBodies \ { << >> })

MoreInput ==
    /\ Len(consumed) < MaxLines
    /\ consumed # << >> => Terminated(consumed[Len(consumed)])

(***************************************************************************)
(* State after argh::from_env (line 73): nothing opened, nothing read.     *)
(***************************************************************************)
Init ==
    /\ format \in FormatStrings
    /\ allow_anomalies \in BOOLEAN
    /\ eol \in Terminators
    /\ pc = "open_output"
    /\ headers = None
    /\ result = None
    /\ consumed = << >>
    /\ diag = << >>
    /\ err = None
    /\ json = None
    /\ sink = [opened |-> FALSE, write_calls |-> 0, written |-> "nothing"]

\* Mutant: the error is recorded and the operation is tried again.
Fail_retry(e) ==
    /\ pc' = pc
    /\ err' = e

Fail(e) ==
    /\ pc' = "failed"
    /\ err' = e

(***************************************************************************)
(* main (lines 72-83), in evaluation order: open_output, open_input,       *)
(* from_format_str, process_input, write_all.                              *)
(***************************************************************************)
\* open_output(args.output_file)? (lines 74, 251-261).
OpenOutputOk ==
    /\ pc = "open_output"
    /\ sink' = [sink EXCEPT !.opened = TRUE]
    /\ pc' = "open_input"
    /\ UNCHANGED <<format, allow_anomalies, eol, headers, result, consumed,
                   diag, err, json>>

OpenOutputErr ==
    /\ pc = "open_output"
    /\ Fail(IoError("open_output"))
    /\ UNCHANGED <<format, allow_anomalies, eol, headers, result, consumed,
                   diag, json, sink>>

\* open_input(args.input_file)? (lines 77, 239-249).
OpenInputOk ==
    /\ pc = "open_input"
    /\ pc' = "from_format_str"
    /\ UNCHANGED <<format, allow_anomalies, eol, headers, result, consumed,
                   diag, err, json, sink>>

OpenInputErr ==
    /\ pc = "open_input"
    /\ Fail(IoError("open_input"))
    /\ UNCHANGED <<format, allow_anomalies, eol, headers, result, consumed,
                   diag, json, sink>>

\* CsvResult::from_format_str(&args.format)? (line 78).
FromFormatStrOk ==
    /\ pc = "from_format_str"
    /\ from_format_str(format).ok
    /\ result' = from_format_str(format).value
    /\ pc' = "read_line"
    /\ UNCHANGED <<format, allow_anomalies, eol, headers, consumed, diag, err,
                   json, sink>>

FromFormatStrErr ==
    /\ pc = "from_format_str"
    /\ ~from_format_str(format).ok
    /\ Fail(from_format_str(format).value)
    /\ UNCHANGED <<format, allow_anomalies, eol, headers, result, consumed,
                   diag, json, sink>>

(***************************************************************************)
(* process_input (lines 85-111): one action per iteration of the while     *)
(* loop, by what read_line returns and which branch takes the line.        *)
(***************************************************************************)
\* Mutant: the first line is bound as the header and accumulated as a row.
ReadHeaderLine_as_row ==
    /\ pc = "read_line"
    /\ MoreInput
    /\ headers = None
    /\ \E line \in NextLines :
         LET hdrs == process_headers(split(line))
             r == IF result.tag = "MapOfLists"
                  THEN process_line_for_map_of_lists(split(line), hdrs,
                                                     result.value, TRUE)
                  ELSE process_line_for_list_of_maps(split(line), hdrs,
                                                     result.value, TRUE)
         IN  /\ consumed' = Append(consumed, line)
             /\ headers' = Some(hdrs)
             /\ result' = [result EXCEPT !.value = r.value]
    /\ UNCHANGED <<format, allow_anomalies, eol, pc, diag, err, json, sink>>

\* First line: headers = Some(process_headers(tokens)) (line 106).
ReadHeaderLine ==
    /\ pc = "read_line"
    /\ MoreInput
    /\ headers = None
    /\ \E line \in NextLines :
         /\ consumed' = Append(consumed, line)
         /\ headers' = Some(process_headers(split(line)))
    /\ UNCHANGED <<format, allow_anomalies, eol, pc, result, diag, err, json,
                   sink>>

\* Later line, CsvResult::MapOfLists (lines 97-99).
ReadLineMapOfLists ==
    /\ pc = "read_line"
    /\ MoreInput
    /\ headers # None
    /\ result.tag = "MapOfLists"
    /\ \E line \in NextLines :
         LET r == process_line_for_map_of_lists(split(line), headers.value,
                                                result.value, allow_anomalies)
         IN  /\ consumed' = Append(consumed, line)
             /\ result' = MapOfLists(r.value)
             /\ diag' = diag \o r.out
             /\ IF r.ok THEN UNCHANGED <<pc, err>> ELSE Fail(r.err)
    /\ UNCHANGED <<format, allow_anomalies, eol, headers, json, sink>>

\* Mutant: each record is written to the sink as soon as it is built.
ReadLineListOfMaps_streaming ==
    /\ pc = "read_line"
    /\ MoreInput
    /\ headers # None
    /\ result.tag = "ListOfMaps"
    /\ \E line \in NextLines :
         LET r == process_line_for_list_of_maps(split(line), headers.value,
                                                result.value, allow_anomalies)
         IN  /\ consumed' = Append(consumed, line)
             /\ result' = ListOfMaps(r.value)
             /\ diag' = diag \o r.out
             /\ sink' = IF r.ok THEN [sink EXCEPT !.written = "part"] ELSE sink
             /\ IF r.ok THEN UNCHANGED <<pc, err>> ELSE Fail(r.err)
    /\ UNCHANGED <<format, allow_anomalies, eol, headers, json>>

\* Later line, CsvResult::ListOfMaps (lines 100-102).
ReadLineListOfMaps ==
    /\ pc = "read_line"
    /\ MoreInput
    /\ headers # None
    /\ result.tag = "ListOfMaps"
    /\ \E line \in NextLines :
         LET r == process_line_for_list_of_maps(split(line), headers.value,
                                                result.value, allow_anomalies)
         IN  /\ consumed' = Append(consumed, line)
             /\ result' = ListOfMaps(r.value)
             /\ diag' = diag \o r.out
             /\ IF r.ok THEN UNCHANGED <<pc, err>> ELSE Fail(r.err)
    /\ UNCHANGED <<format, allow_anomalies, eol, headers, json, sink>>

\* read_line returns Some(Err(_)): `line?` of line 94 returns the error.
ReadLineErr ==
    /\ pc = "read_line"
    /\ MoreInput
    /\ Fail(IoError("read_line"))
    /\ UNCHANGED <<format, allow_anomalies, eol, headers, result, consumed,
                   diag, json, sink>>

\* Mutant: a stream without a header line is an error.
EndOfStream_needs_header ==
    /\ pc = "read_line"
    /\ IF headers = None
       THEN Fail(Error(<<"No header line">>)) /\ UNCHANGED json
       ELSE json' = Some(to_json_str(result)) /\ pc' = "write_all"
                                              /\ UNCHANGED err
    /\ UNCHANGED <<format, allow_anomalies, eol, headers, result, consumed,
                   diag, sink>>

\* read_line returns None: the loop ends and to_json_str(&result, pretty)
\* is the value of process_input (line 110).
EndOfStream ==
    /\ pc = "read_line"
    /\ json' = Some(to_json_str(result))
    /\ pc' = "write_all"
    /\ UNCHANGED <<format, allow_anomalies, eol, headers, result, consumed,
                   diag, err, sink>>

(***************************************************************************)
(* write_all (line 75) on the opened sink.  Write::write_all either writes *)
(* everything, or returns the first error with an unspecified part of the  *)
(* bytes (none, or a prefix) already written.                              *)
(***************************************************************************)
WriteAllOk ==
    /\ pc = "write_all"
    /\ sink' = [sink EXCEPT !.write_calls = @ + 1, !.written = "all"]
    /\ pc' = "done"
    /\ UNCHANGED <<format, allow_anomalies, eol, headers, result, consumed,
                   diag, err, json>>

WriteAllErr ==
    /\ pc = "write_all"
    /\ \E w \in {"nothing", "part"} :
         sink' = [sink EXCEPT !.write_calls = @ + 1, !.written = w]
    /\ Fail(IoError("write_all"))
    /\ UNCHANGED <<format, allow_anomalies, eol, headers, result, consumed,
                   diag, json>>

Next ==
    \/ OpenOutputOk
    \/ OpenOutputErr
    \/ OpenInputOk
    \/ OpenInputErr
    \/ FromFormatStrOk
    \/ FromFormatStrErr
    \/ ReadHeaderLine
    \/ ReadLineMapOfLists
    \/ ReadLineListOfMaps
    \/ ReadLineErr
    \/ EndOfStream
    \/ WriteAllOk
    \/ WriteAllErr

Spec == Init /\ [][Next]_vars

\* The process is sequential and is not cancelled: main keeps executing
\* while it has a next step.
FairSpec == Spec /\ WF_vars(Next)

(***************************************************************************)
(* Vocabulary of the properties.                                           *)
(***************************************************************************)
Min(a, b) == IF a < b THEN a ELSE b

\* The run ended on a bail! of an accumulator (lines 164, 177, 202, 214).
IsAnomalyMsg(msg) ==
    msg[1] \in { "Found item outside of expected bounds; index: ",
                 "Line too short; length: " }
AnomalyFailed == pc = "failed" /\ IsAnomalyMsg(err.msg)

\* Number of data lines whose accumulator call returned Ok.
NumDone ==
    IF AnomalyFailed THEN Len(consumed) - 2
    ELSE IF consumed = << >> THEN 0 ELSE Len(consumed) - 1

\* Tokens of the k-th data line read, and the header's column count.
DataTokens(k) == split(consumed[k + 1])
NumColumns == len(headers.value)

\* Indices of the header that carry the column name c.
IndicesOf(c) == { i \in DOMAIN headers.value : headers.value[i] = c }
DistinctNames ==
    \A i, j \in DOMAIN headers.value :
        headers.value[i] = headers.value[j] => i = j

\* Number of completed data lines that have a token at index i.
SuppliedAt(i) == Cardinality({ k \in 1..NumDone : Len(DataTokens(k)) > i })

\* Number of tokens the completed data lines have at the indices of c.
SuppliedFor(c) ==
    LET sum[i \in -1..(NumColumns - 1)] ==
            IF i = -1 THEN 0
            ELSE sum[i - 1] + (IF headers.value[i] = c THEN SuppliedAt(i) ELSE 0)
    IN  sum[NumColumns - 1]

(***************************************************************************)
(* C1.  In list-of-maps mode the number of records equals the number of    *)
(* data lines processed so far, lines with a tolerated anomaly included:   *)
(* each completed data line appends exactly one record.                    *)
(***************************************************************************)
C1_RecordCount ==
    result.tag = "ListOfMaps" => Len(result.value) = NumDone

\* Two data lines, the first short and the second long, both tolerated.
C1_Witness ==
    /\ result.tag = "ListOfMaps"
    /\ allow_anomalies
    /\ Len(consumed) = 3
    /\ NumColumns = 2
    /\ Len(DataTokens(1)) = 1
    /\ Len(DataTokens(2)) = 3
    /\ Len(result.value) = 2

(***************************************************************************)
(* C2.  In map-of-lists mode, after every processed line, each list of the *)
(* result is no longer than the number of data lines processed, and as     *)
(* long as the number of data lines that supplied a token at its column's  *)
(* index.                                                                  *)
(***************************************************************************)
C2_AsClaimed ==
    (result.tag = "MapOfLists" /\ headers # None /\ ~AnomalyFailed) =>
        \A c \in DOMAIN result.value :
            /\ Len(result.value[c]) <= NumDone
            /\ \A i \in IndicesOf(c) : Len(result.value[c]) = SuppliedAt(i)

\* C2 as amended: the length of a list is the number of tokens supplied at
\* all the indices that carry its name, at most one per such index and
\* data line; with one index per name this is the claim as made.
C2_ListLengths ==
    (result.tag = "MapOfLists" /\ headers # None /\ ~AnomalyFailed) =>
        \A c \in DOMAIN result.value :
            /\ Len(result.value[c]) = SuppliedFor(c)
            /\ Len(result.value[c]) <= NumDone * Cardinality(IndicesOf(c))
            /\ Cardinality(IndicesOf(c)) = 1 =>
                 /\ Len(result.value[c]) <= NumDone
                 /\ \A i \in IndicesOf(c) : Len(result.value[c]) = SuppliedAt(i)

\* Distinct names, one full and one short data line: the lists differ in
\* length.
C2_Witness ==
    /\ result.tag = "MapOfLists"
    /\ pc = "read_line"
    /\ Len(consumed) = 3
    /\ NumColumns = 2
    /\ DistinctNames
    /\ \E c, d \in DOMAIN result.value :
         Len(result.value[c]) = 2 /\ Len(result.value[d]) = 1

(***************************************************************************)
(* C3.  For every well-formed input (each data line has as many tokens as  *)
(* the header line) the list-of-maps result and the map-of-lists result of *)
(* process_input are transposes of each other: record k maps c to v if and *)
(* only if position k of list c is v.                                      *)
(***************************************************************************)
WellFormed ==
    \A k \in 1..NumDone : Len(DataTokens(k)) = NumColumns

\* process_input returned Ok: the stream was read to its end.
Returned == json # None

\* The result of the run, and the result process_input has in the other
\* shape on the lines this run has read.
ResultAs(empty) ==
    IF result.tag = empty.tag THEN result
    ELSE IF headers = None THEN empty
    ELSE process_data_lines(empty, headers.value,
                            SubSeq(consumed, 2, Len(consumed)),
                            allow_anomalies)

Transposed(lom, mol) ==
    /\ \A k \in 1..Len(lom) : \A c \in DOMAIN lom[k] :
         /\ c \in DOMAIN mol
         /\ k <= Len(mol[c])
         /\ mol[c][k] = lom[k][c]
    /\ \A c \in DOMAIN mol : \A k \in 1..Len(mol[c]) :
         /\ k <= Len(lom)
         /\ c \in DOMAIN lom[k]
         /\ lom[k][c] = mol[c][k]

C3_AsClaimed ==
    (Returned /\ WellFormed) =>
        Transposed(ResultAs(ListOfMaps(<< >>)).value,
                   ResultAs(MapOfLists(EmptyMap)).value)

\* C3 as amended: the same, for headers whose column names are pairwise
\* distinct.
C3_Transpose ==
    (Returned /\ WellFormed /\ (headers # None => DistinctNames)) =>
        Transposed(ResultAs(ListOfMaps(<< >>)).value,
                   ResultAs(MapOfLists(EmptyMap)).value)

\* A two-column header with distinct names and two different full rows.
C3_Witness ==
    /\ Returned
    /\ Len(consumed) = 3
    /\ WellFormed
    /\ NumColumns = 2
    /\ DistinctNames
    /\ result.tag = "ListOfMaps"
    /\ Len(result.value) = 2
    /\ result.value[1] # result.value[2]

(***************************************************************************)
(* C4.  In strict mode, in both shapes, a data line whose token count      *)
(* differs from the header's column count makes process_input return an    *)
(* error, and no output is produced; a strict run that succeeds saw only   *)
(* lines with exactly as many tokens as the header has columns.            *)
(***************************************************************************)
\* Some data line read so far has too few or too many tokens.
AnomalyRead ==
    /\ headers # None
    /\ \E k \in 2..Len(consumed) : Len(split(consumed[k])) # NumColumns

NoOutput ==
    /\ json = None
    /\ sink.write_calls = 0
    /\ sink.written = "nothing"

C4_StrictFails ==
    ~allow_anomalies =>
        /\ AnomalyRead => (AnomalyFailed /\ NoOutput)
        /\ Returned => \A k \in 2..Len(consumed) :
                          Len(split(consumed[k])) = NumColumns

\* A strict map-of-lists run that failed on its second data line.
C4_Witness ==
    /\ ~allow_anomalies
    /\ result.tag = "MapOfLists"
    /\ Len(consumed) = 3
    /\ Len(split(consumed[2])) = NumColumns
    /\ Len(split(consumed[3])) < NumColumns
    /\ AnomalyFailed
    /\ NoOutput

(***************************************************************************)
(* C5.  In tolerant mode no overflow or underflow makes the run fail, in   *)
(* either shape: each anomaly is reported on stderr only, every line of    *)
(* the stream is still processed, and when the stream ends process_input   *)
(* returns the output.                                                     *)
(***************************************************************************)
\* Messages an anomalous line causes: one for each token beyond the
\* header, one for a short line.
ExpectedMessages(k) ==
    LET n == Len(DataTokens(k))
    IN  (IF n > NumColumns THEN n - NumColumns ELSE 0)
        + (IF n < NumColumns THEN 1 ELSE 0)

TotalMessages ==
    LET sum[k \in 0..NumDone] ==
            IF k = 0 THEN 0 ELSE sum[k - 1] + ExpectedMessages(k)
    IN  sum[NumDone]

C5_TolerantContinues ==
    allow_anomalies =>
        /\ ~AnomalyFailed
        /\ headers # None => /\ NumDone = Len(consumed) - 1
                             /\ Len(diag) = TotalMessages
        /\ \A n \in 1..Len(diag) : IsAnomalyMsg(diag[n].msg)
        /\ pc = "failed" =>
             err.msg[1] \in {"I/O error: ", "Unknown format string: "}
        /\ pc = "read_line" => ENABLED EndOfStream
        /\ pc = "read_line" => NoOutput
        /\ Returned => json.value = to_json_str(result)
        /\ (Returned /\ headers # None) =>
              result = process_data_lines(
                           from_format_str(format).value, headers.value,
                           SubSeq(consumed, 2, Len(consumed)), TRUE)

\* A tolerant run that met a short line and then a long one and returned.
C5_Witness ==
    /\ allow_anomalies
    /\ Returned
    /\ Len(consumed) = 3
    /\ Len(DataTokens(1)) < NumColumns
    /\ Len(DataTokens(2)) > NumColumns
    /\ Len(diag) = 2
    /\ pc = "done"

(***************************************************************************)
(* C6.  from_format_str is case-sensitive and total: exactly               *)
(* "list-of-maps", "lom" and "l" give an empty ListOfMaps, exactly         *)
(* "map-of-lists", "mol" and "m" give an empty MapOfLists, every other     *)
(* string (the empty one and other-cased ones included) gives an error     *)
(* that names the string; the variant chosen never changes during the run. *)
(***************************************************************************)
ListOfMapsTokens ==
    { <<"l", "i", "s", "t", "-", "o", "f", "-", "m", "a", "p", "s">>,
      <<"l", "o", "m">>, <<"l">> }
MapOfListsTokens ==
    { <<"m", "a", "p", "-", "o", "f", "-", "l", "i", "s", "t", "s">>,
      <<"m", "o", "l">>, <<"m">> }

C6_Selected ==
    /\ format \in ListOfMapsTokens =>
         from_format_str(format) = [ok |-> TRUE, value |-> ListOfMaps(<< >>)]
    /\ format \in MapOfListsTokens =>
         from_format_str(format) = [ok |-> TRUE, value |-> MapOfLists(<< >>)]
    /\ format \notin ListOfMapsTokens \cup MapOfListsTokens =>
         /\ from_format_str(format) =
              [ok |-> FALSE,
               value |-> Error(<<"Unknown format string: ", format>>)]
         /\ result = None
         /\ pc \in {"open_output", "open_input", "from_format_str", "failed"}
    /\ result # None =>
         /\ result.tag = "ListOfMaps" <=> format \in ListOfMapsTokens
         /\ result.tag = "MapOfLists" <=> format \in MapOfListsTokens
    /\ (pc = "read_line" /\ consumed = << >>) =>
         result.value = << >>
    /\ (pc = "failed" /\ err.msg[1] = "Unknown format string: ") =>
         /\ format \notin ListOfMapsTokens \cup MapOfListsTokens
         /\ err.msg[2] = format

C6_FormatSelection ==
    /\ []C6_Selected
    /\ [][result # None => result'.tag = result.tag]_vars

\* "LOM" is refused, with an error naming it.
C6_Witness ==
    /\ format = <<"L", "O", "M">>
    /\ pc = "failed"
    /\ err = Error(<<"Unknown format string: ", <<"L", "O", "M">>>>)

(***************************************************************************)
(* C7.  A run that ends in a fatal error has written nothing to the output *)
(* sink; the sink is written at most once per run, and only after the      *)
(* whole stream was consumed and the full result built.                    *)
(***************************************************************************)
WrittenOnceAtEnd ==
    /\ sink.write_calls <= 1
    /\ sink.written # "nothing" => sink.write_calls = 1
    /\ sink.write_calls = 1 =>
         /\ Returned
         /\ pc \in {"done", "failed"}
         /\ json.value = to_json_str(result)
         /\ headers # None =>
              result = process_data_lines(
                           from_format_str(format).value, headers.value,
                           SubSeq(consumed, 2, Len(consumed)),
                           allow_anomalies)
    /\ pc = "done" => sink.written = "all"

C7_AsClaimed ==
    /\ pc = "failed" => sink.written = "nothing"
    /\ WrittenOnceAtEnd

\* C7 as amended: the fatal errors that leave the sink untouched are those
\* raised before the write; the failure of write_all itself may leave a
\* part of the output in the sink.
C7_NoOutputOnFailure ==
    /\ (pc = "failed" /\ err # IoError("write_all")) =>
          sink.written = "nothing" /\ sink.write_calls = 0
    /\ WrittenOnceAtEnd

\* A strict run that failed on an anomaly after one good data line.
C7_Witness ==
    /\ AnomalyFailed
    /\ Len(consumed) = 3
    /\ sink.opened
    /\ sink.written = "nothing"

(***************************************************************************)
(* C8.  In tolerant mode a data line of k tokens under a header of n       *)
(* columns contributes exactly the tokens at indices 0..min(k,n)-1, each   *)
(* under the header name of its index: the record of a list-of-maps has    *)
(* those entries only, the columns at indices >= k being absent; in a      *)
(* map-of-lists only those columns' lists grow, by one; tokens at indices  *)
(* >= n change nothing.                                                    *)
(***************************************************************************)
\* Values of data line k at header index i, if the line reaches it.
ValueAt(k, i) == replace_newline(DataTokens(k)[i + 1])
Aligned(k) == 0..(Min(Len(DataTokens(k)), NumColumns) - 1)

\* The values column i receives from the completed lines, in line order.
ColumnValues(i) ==
    LET col[k \in 0..NumDone] ==
            IF k = 0 THEN << >>
            ELSE IF i \in Aligned(k) THEN Append(col[k - 1], ValueAt(k, i))
            ELSE col[k - 1]
    IN  col[NumDone]

C8_AsClaimed ==
    (allow_anomalies /\ headers # None) =>
        /\ result.tag = "ListOfMaps" =>
             \A k \in 1..Len(result.value) :
                 /\ DOMAIN result.value[k] =
                        { headers.value[i] : i \in Aligned(k) }
                 /\ \A i \in Aligned(k) :
                        result.value[k][headers.value[i]] = ValueAt(k, i)
                 /\ \A i \in DOMAIN headers.value :
                        i >= Len(DataTokens(k)) =>
                            headers.value[i] \notin DOMAIN result.value[k]
        /\ result.tag = "MapOfLists" =>
             /\ \A i \in DOMAIN headers.value :
                    IF ColumnValues(i) = << >>
                    THEN headers.value[i] \notin DOMAIN result.value
                    ELSE /\ headers.value[i] \in DOMAIN result.value
                         /\ result.value[headers.value[i]] = ColumnValues(i)
             /\ \A c \in DOMAIN result.value : IndicesOf(c) # {}

\* The values data line k has for the column name c, in index order, and
\* the values the completed lines have for c, in line order.
Contribution(k, c) ==
    LET upto[i \in -1..(NumColumns - 1)] ==
            IF i = -1 THEN << >>
            ELSE IF i \in Aligned(k) /\ headers.value[i] = c
            THEN Append(upto[i - 1], ValueAt(k, i))
            ELSE upto[i - 1]
    IN  upto[NumColumns - 1]

NameValues(c) ==
    LET all[k \in 0..NumDone] ==
            IF k = 0 THEN << >> ELSE all[k - 1] \o Contribution(k, c)
    IN  all[NumDone]

\* C8 as amended: the same, a column name being bound to the tokens of all
\* the aligned indices that carry it: the record holds the last of them,
\* the list grows by all of them in index order.
C8_AlignedTokens ==
    (allow_anomalies /\ headers # None) =>
        /\ result.tag = "ListOfMaps" =>
             \A k \in 1..Len(result.value) :
                 LET record == result.value[k]
                 IN  /\ DOMAIN record = { headers.value[i] : i \in Aligned(k) }
                     /\ \A c \in DOMAIN record :
                            LET values == Contribution(k, c)
                            IN  record[c] = values[Len(values)]
                     /\ DistinctNames =>
                          /\ \A i \in Aligned(k) :
                                 record[headers.value[i]] = ValueAt(k, i)
                          /\ \A i \in DOMAIN headers.value :
                                 i >= Len(DataTokens(k)) =>
                                     headers.value[i] \notin DOMAIN record
        /\ result.tag = "MapOfLists" =>
             /\ \A c \in { headers.value[i] : i \in DOMAIN headers.value } :
                    LET values == NameValues(c)
                    IN  /\ values = << >> => c \notin DOMAIN result.value
                        /\ values # << >> =>
                             /\ c \in DOMAIN result.value
                             /\ result.value[c] = values
                        /\ DistinctNames =>
                             \A i \in IndicesOf(c) : values = ColumnValues(i)
             /\ \A c \in DOMAIN result.value : IndicesOf(c) # {}

\* Header a,b; a short line then a long one, in a tolerant map-of-lists.
C8_Witness ==
    /\ allow_anomalies
    /\ result.tag = "MapOfLists"
    /\ Len(consumed) = 3
    /\ NumColumns = 2
    /\ DistinctNames
    /\ Len(DataTokens(1)) = 1
    /\ Len(DataTokens(2)) = 3
    /\ Len(result.value[headers.value[0]]) = 2
    /\ Len(result.value[headers.value[1]]) = 1

(***************************************************************************)
(* C9.  On a stream of zero lines process_input succeeds, in strict and in *)
(* tolerant mode, and gives the serializer the empty form of the shape:    *)
(* an empty map for map-of-lists, an empty list for list-of-maps.          *)
(***************************************************************************)
C9_EmptyInput ==
    consumed = << >> =>
        /\ pc = "failed" =>
             err.msg[1] \in {"I/O error: ", "Unknown format string: "}
        /\ pc = "read_line" => ENABLED EndOfStream
        /\ pc \in {"write_all", "done"} => Returned
        /\ Returned =>
             /\ result.value = << >>
             /\ json.value = IF format \in MapOfListsTokens
                             THEN [type |-> "object", members |-> {}]
                             ELSE [type |-> "array", items |-> << >>]

\* A strict map-of-lists run on an empty stream, written out.
C9_Witness ==
    /\ consumed = << >>
    /\ ~allow_anomalies
    /\ format = <<"m", "o", "l">>
    /\ pc = "done"
    /\ json = Some([type |-> "object", members |-> {}])

(***************************************************************************)
(* C10.  The first line read is the header whatever its content: it adds   *)
(* no record and no value and raises no anomaly; every later line goes to  *)
(* the accumulator of the shape and never to process_headers; the header   *)
(* map built from the first line is the same in every later state.         *)
(***************************************************************************)
C10_HeaderBound ==
    /\ headers # None <=> consumed # << >>
    /\ headers # None =>
         /\ DOMAIN headers.value = 0..(Len(split(consumed[1])) - 1)
         /\ \A i \in DOMAIN headers.value :
                headers.value[i] = replace_newline(split(consumed[1])[i + 1])
    /\ Len(consumed) = 1 =>
         /\ result.value = << >>
         /\ diag = << >>
         /\ ~AnomalyFailed

C10_HeaderFirst ==
    /\ []C10_HeaderBound
    /\ [][headers # None => headers' = headers]_vars
    /\ [][consumed' # consumed =>
            IF consumed = << >>
            THEN /\ headers = None /\ headers' # None
                 /\ result' = result /\ diag' = diag
                 /\ err' = err /\ pc' = pc
            ELSE /\ headers' = headers
                 /\ result' # result \/ pc' = "failed"]_vars

\* The header line is a,b and so are both data lines.
C10_Witness ==
    /\ Len(consumed) = 3
    /\ consumed[1] = consumed[2]
    /\ consumed[2] = consumed[3]
    /\ headers.value = (0 :> <<"a">> @@ 1 :> <<"b">>)
    /\ result.tag = "ListOfMaps"
    /\ Len(result.value) = 2

(***************************************************************************)
(* C11.  A header that names a column at two or more indices raises no     *)
(* error and the names collide as one key: a list-of-maps record holds for *)
(* the name the token of the highest aligned index that carries it; in a   *)
(* map-of-lists every aligned token of those indices is appended, in token *)
(* order, to the one list of the name, which so grows by more than one     *)
(* entry per data line.                                                    *)
(***************************************************************************)
DuplicatedNames ==
    { c \in { headers.value[i] : i \in DOMAIN headers.value } :
        Cardinality(IndicesOf(c)) >= 2 }

\* The highest index of data line k that is aligned and carries c.
HighestAligned(k, c) ==
    CHOOSE i \in IndicesOf(c) \cap Aligned(k) :
        \A j \in IndicesOf(c) \cap Aligned(k) : j <= i

\* Number of tokens the completed lines have at the indices of c.
AlignedCount(c) ==
    LET sum[k \in 0..NumDone] ==
            IF k = 0 THEN 0
            ELSE sum[k - 1] + Cardinality(IndicesOf(c) \cap Aligned(k))
    IN  sum[NumDone]

Collision ==
    /\ AnomalyFailed =>
         Len(split(consumed[Len(consumed)])) # NumColumns
    /\ ~AnomalyFailed =>
         \A c \in DuplicatedNames :
             /\ result.tag = "ListOfMaps" =>
                  \A k \in 1..Len(result.value) :
                      IF IndicesOf(c) \cap Aligned(k) = {}
                      THEN c \notin DOMAIN result.value[k]
                      ELSE /\ c \in DOMAIN result.value[k]
                           /\ result.value[k][c] =
                                  ValueAt(k, HighestAligned(k, c))
             /\ result.tag = "MapOfLists" =>
                  IF AlignedCount(c) = 0
                  THEN c \notin DOMAIN result.value
                  ELSE /\ c \in DOMAIN result.value
                       /\ result.value[c] = NameValues(c)
                       /\ Len(result.value[c]) = AlignedCount(c)

C11_AsClaimed ==
    headers # None =>
        /\ Collision
        /\ (result.tag = "MapOfLists" /\ ~AnomalyFailed /\ NumDone >= 1) =>
             \A c \in DuplicatedNames :
                 /\ c \in DOMAIN result.value
                 /\ Len(result.value[c]) >= 2 * NumDone

\* C11 as amended: the list grows by one entry for each aligned index that
\* carries the name, so by more than one for each data line that reaches
\* two of those indices; a tolerated short line can add a single entry.
C11_DuplicateNames ==
    headers # None =>
        /\ Collision
        /\ (result.tag = "MapOfLists" /\ ~AnomalyFailed /\ NumDone >= 1
                                       /\ WellFormed) =>
             \A c \in DuplicatedNames :
                 Len(result.value[c]) = NumDone * Cardinality(IndicesOf(c))

\* Header a,a and two full data lines in a map-of-lists: one list of four.
C11_Witness ==
    /\ headers # None
    /\ DuplicatedNames # {}
    /\ result.tag = "MapOfLists"
    /\ NumDone = 2
    /\ WellFormed
    /\ \E c \in DuplicatedNames : Len(result.value[c]) = 4

(***************************************************************************)
(* C12.  In strict mode the error of an anomaly identifies it: an overflow *)
(* error carries the zero-based index of the first token without a header  *)
(* column; an underflow error gives the token count of the line as the     *)
(* length observed and the column count of the header as the one expected. *)
(***************************************************************************)
\* The line whose accumulation failed.
FailedTokens == split(consumed[Len(consumed)])

OverflowFailed ==
    AnomalyFailed
    /\ err.msg[1] = "Found item outside of expected bounds; index: "
UnderflowFailed ==
    AnomalyFailed /\ err.msg[1] = "Line too short; length: "

C12_OverflowIndex ==
    ~allow_anomalies =>
        /\ OverflowFailed <=>
             (AnomalyFailed /\ Len(FailedTokens) > NumColumns)
        /\ UnderflowFailed <=>
             (AnomalyFailed /\ Len(FailedTokens) < NumColumns)
        /\ OverflowFailed => err.msg = OverflowMsg(NumColumns)

C12_AsClaimed ==
    ~allow_anomalies =>
        /\ C12_OverflowIndex
        /\ UnderflowFailed =>
             err.msg = <<"Line too short; length: ", Len(FailedTokens),
                         "; expected: ", NumColumns>>

(***************************************************************************)
(* C13.  Stream order is kept in both shapes: the k-th record of a         *)
(* list-of-maps is built from the k-th data line, the values of each list  *)
(* of a map-of-lists are in the order of the data lines that supplied      *)
(* them; no line is processed before the line before it is accumulated.    *)
(***************************************************************************)
IsPrefix(s, t) == Len(s) <= Len(t) /\ SubSeq(t, 1, Len(s)) = s

\* The record the k-th data line gives on its own.
RecordOf(k) ==
    [c \in { headers.value[i] : i \in Aligned(k) } |->
        ValueAt(k, HighestAligned(k, c))]

C13_InOrder ==
    (headers # None /\ ~AnomalyFailed) =>
        /\ result.tag = "ListOfMaps" =>
             /\ Len(result.value) = Len(consumed) - 1
             /\ \A k \in 1..Len(result.value) : result.value[k] = RecordOf(k)
        /\ result.tag = "MapOfLists" =>
             \A c \in DOMAIN result.value : result.value[c] = NameValues(c)

\* A step that reads a line appends it to the lines read and only appends
\* to the result.
C13_OneLineAtATime ==
    consumed' # consumed =>
        /\ Len(consumed') = Len(consumed) + 1
        /\ SubSeq(consumed', 1, Len(consumed)) = consumed
        /\ result.tag = "ListOfMaps" => IsPrefix(result.value, result'.value)
        /\ result.tag = "MapOfLists" =>
             \A c \in DOMAIN result.value :
                 /\ c \in DOMAIN result'.value
                 /\ IsPrefix(result.value[c], result'.value[c])

C13_StreamOrder ==
    /\ []C13_InOrder
    /\ [][C13_OneLineAtATime]_vars

\* Header a,b and the data lines a,b and b,a in a list-of-maps.
C13_Witness ==
    /\ result.tag = "ListOfMaps"
    /\ Len(consumed) = 3
    /\ ~AnomalyFailed
    /\ NumColumns = 2
    /\ DistinctNames
    /\ DataTokens(1) # DataTokens(2)
    /\ Len(DataTokens(1)) = 2
    /\ Len(DataTokens(2)) = 2
    /\ result.value[1] = RecordOf(1)
    /\ result.value[2] = RecordOf(2)
    /\ result.value[1] # result.value[2]

(***************************************************************************)
(* Text of a token without the line terminator that ends it.               *)
(***************************************************************************)
RECURSIVE Chomp(_)
Chomp(token) ==
    IF Len(token) > 0 /\ token[Len(token)] \in {"\n", "\r"}
    THEN Chomp(SubSeq(token, 1, Len(token) - 1))
    ELSE token

\* The line has no content: it is its terminator.
EmptyLine(line) == Chomp(line) = << >>

(***************************************************************************)
(* C14.  Every line, the empty one included, has at least one token (the   *)
(* empty line exactly one, empty), so the header map has n >= 1 entries    *)
(* with the keys 0..n-1; so no data line raises both an overflow and an    *)
(* underflow, and an empty data line is an underflow exactly when n > 1    *)
(* and otherwise binds the empty string to column 0.                       *)
(***************************************************************************)
Count(seq, P(_)) == Cardinality({ n \in 1..Len(seq) : P(seq[n]) })

IsUnderflow(d) == d.msg[1] = "Line too short; length: "
IsOverflow(d) == d.msg[1] = "Found item outside of expected bounds; index: "

\* The value column 0 has for the k-th data line (the header has one
\* column, so every completed line has a value for it).
FirstColumnValue(k) ==
    IF result.tag = "ListOfMaps"
    THEN result.value[k][headers.value[0]]
    ELSE result.value[headers.value[0]][k]

C14_TokensAndAnomalies ==
    /\ \A n \in 1..Len(consumed) :
         /\ Len(split(consumed[n])) >= 1
         /\ EmptyLine(consumed[n]) => Len(split(consumed[n])) = 1
    /\ headers # None =>
         /\ NumColumns >= 1
         /\ DOMAIN headers.value = 0..(NumColumns - 1)
         /\ Count(diag, IsUnderflow) =
              Cardinality({ k \in 1..NumDone : Len(DataTokens(k)) < NumColumns })
         /\ Count(diag, IsOverflow) > 0 <=>
              \E k \in 1..NumDone : Len(DataTokens(k)) > NumColumns
         /\ \A k \in 1..NumDone :
              EmptyLine(consumed[k + 1]) =>
                  /\ Len(DataTokens(k)) < NumColumns <=> NumColumns > 1
                  /\ NumColumns = 1 =>
                       FirstColumnValue(k) = replace_newline(consumed[k + 1])
         /\ (AnomalyFailed /\ EmptyLine(consumed[Len(consumed)])) =>
              (UnderflowFailed /\ NumColumns > 1)

C14_AsClaimed ==
    /\ C14_TokensAndAnomalies
    /\ \A n \in 1..Len(consumed) :
         EmptyLine(consumed[n]) =>
             replace_newline(split(consumed[n])[1]) = << >>
    /\ (headers # None /\ NumColumns = 1) =>
         \A k \in 1..NumDone :
             EmptyLine(consumed[k + 1]) => FirstColumnValue(k) = << >>

(***************************************************************************)
(* C15.  For lines terminated by "\n" or by "\r\n", every column name of   *)
(* the header map and every value of the result is its token without the   *)
(* trailing line terminator and otherwise unchanged; no name and no value  *)
(* contains a line-terminator character.                                   *)
(***************************************************************************)
NoTerminator(text) == \A n \in 1..Len(text) : text[n] \notin {"\n", "\r"}

TerminatorsStripped ==
    headers # None =>
        /\ \A i \in DOMAIN headers.value :
             /\ headers.value[i] = Chomp(split(consumed[1])[i + 1])
             /\ NoTerminator(headers.value[i])
        /\ (result.tag = "ListOfMaps" /\ ~AnomalyFailed) =>
             \A k \in 1..Len(result.value) :
                 \A c \in DOMAIN result.value[k] :
                     /\ result.value[k][c] =
                            Chomp(DataTokens(k)[HighestAligned(k, c) + 1])
                     /\ NoTerminator(result.value[k][c])
        /\ result.tag = "MapOfLists" =>
             \A c \in DOMAIN result.value :
                 \A n \in 1..Len(result.value[c]) :
                     NoTerminator(result.value[c][n])

C15_AsClaimed == TerminatorsStripped

\* What holds: on a stream whose lines end in "\n" alone.
C15_LineFeedOnly == eol = <<"\n">> => TerminatorsStripped

(***************************************************************************)
(* C16.  In map-of-lists mode, in every state, every key of the result is  *)
(* a column name of the header map and every list is non-empty: a list is  *)
(* created only by the step that appends its first value, and a header     *)
(* column that received no token from any line read is absent.             *)
(***************************************************************************)
HeaderNames == { headers.value[i] : i \in DOMAIN headers.value }

\* Some data line read, the one a strict run failed on included, has a
\* token at an index of c.
ReceivedToken(c) ==
    \E k \in 1..(Len(consumed) - 1) : IndicesOf(c) \cap Aligned(k) # {}

C16_KeysAndLists ==
    result.tag = "MapOfLists" =>
        /\ headers = None => result.value = EmptyMap
        /\ headers # None =>
             /\ DOMAIN result.value \subseteq HeaderNames
             /\ \A c \in DOMAIN result.value : Len(result.value[c]) >= 1
             /\ \A c \in HeaderNames :
                    c \in DOMAIN result.value <=> ReceivedToken(c)

\* A list that is new after a step holds the tokens the line read in that
\* step has at the indices of its name, and there is at least one.
C16_CreatedByAppend ==
    result.tag = "MapOfLists" =>
        \A c \in (DOMAIN result'.value) \ (DOMAIN result.value) :
            /\ headers # None
            /\ Len(consumed') = Len(consumed) + 1
            /\ LET line == Len(consumed') - 1
                   at == IndicesOf(c) \cap { i \in DOMAIN headers.value :
                                               i < Len(split(consumed'[line + 1])) }
               IN  /\ at # {}
                   /\ Len(result'.value[c]) = Cardinality(at)
                   /\ \A n \in 1..Len(result'.value[c]) :
                        \E i \in at :
                          result'.value[c][n] =
                            replace_newline(split(consumed'[line + 1])[i + 1])

C16_NoPlaceholders ==
    /\ []C16_KeysAndLists
    /\ [][C16_CreatedByAppend]_vars

\* A tolerant run whose header has two columns and whose two data lines
\* have one token each: the second column has no list.
C16_Witness ==
    /\ result.tag = "MapOfLists"
    /\ allow_anomalies
    /\ headers # None
    /\ NumColumns = 2
    /\ DistinctNames
    /\ Len(consumed) = 3
    /\ Len(DataTokens(1)) = 1
    /\ Len(DataTokens(2)) = 1
    /\ DOMAIN result.value = {headers.value[0]}
    /\ Len(result.value[headers.value[0]]) = 2
    /\ Returned

(***************************************************************************)
(* C17.  On every finite stream the run ends in exactly one terminal       *)
(* state: done, only after the stream signalled its end and every line     *)
(* read is in the result, or failed, at the first error.  A strict run     *)
(* reads no line after the first anomalous one, and no operation is        *)
(* retried.                                                                *)
(***************************************************************************)
Terminal == pc \in {"done", "failed"}

\* Position of an operation in main's order of evaluation.
Rank(p) ==
    CASE p = "open_output" -> 0
      [] p = "open_input" -> 1
      [] p = "from_format_str" -> 2
      [] p = "read_line" -> 3
      [] p = "write_all" -> 4
      [] OTHER -> 5

C17_Terminal ==
    /\ pc = "failed" <=> err # None
    /\ pc = "done" =>
         /\ Returned
         /\ json = Some(to_json_str(result))
         /\ sink.written = "all"
         /\ result.tag = "ListOfMaps" /\ headers # None =>
                Len(result.value) = Len(consumed) - 1
    /\ sink.write_calls <= 1
    /\ (~allow_anomalies /\ headers # None) =>
         \A n \in 2..(Len(consumed) - 1) :
             Len(split(consumed[n])) = NumColumns

C17_NoRetry ==
    /\ ~Terminal
    /\ Rank(pc') >= Rank(pc)
    /\ pc' = pc =>
         (pc = "read_line" /\ Len(consumed') = Len(consumed) + 1)

C17_Terminates ==
    /\ []C17_Terminal
    /\ [][C17_NoRetry]_vars
    /\ <>Terminal
    /\ [](Terminal => []Terminal)

\* A strict run that failed on its first data line, a terminated line
\* after which the stream could have had more.
C17_Witness ==
    /\ ~allow_anomalies
    /\ AnomalyFailed
    /\ Len(consumed) = 2
    /\ Terminated(consumed[2])
    /\ Len(consumed) < MaxLines
    /\ sink.write_calls = 0

(***************************************************************************)
(* C18.  The two accumulators detect anomalies alike: for every header,    *)
(* data line and policy they agree on the outcome, on the kind of anomaly  *)
(* and on the index or counts reported, so a run fails in one format       *)
(* exactly if it fails in the other, and at the same line.                 *)
(***************************************************************************)
\* What each accumulator returns for the k-th data line read (the outcome
\* of a call does not depend on what was accumulated before it).
AsMapOfLists(k) ==
    process_line_for_map_of_lists(DataTokens(k), headers.value, EmptyMap,
                                  allow_anomalies)
AsListOfMaps(k) ==
    process_line_for_list_of_maps(DataTokens(k), headers.value, << >>,
                                  allow_anomalies)

\* The anomalies reported on stderr, without the "Warning: " prefix.
Reported(out) == [n \in 1..Len(out) |-> out[n].msg]

C18_SameDetection ==
    headers # None =>
        /\ \A k \in 1..(Len(consumed) - 1) :
             LET a == AsMapOfLists(k)
                 b == AsListOfMaps(k)
             IN  /\ a.ok = b.ok
                 /\ a.err = b.err
                 /\ Reported(a.out) = Reported(b.out)
                 /\ a.ok \/ (AnomalyFailed /\ k = Len(consumed) - 1
                                           /\ err = a.err)
        /\ AnomalyFailed =>
             /\ Len(consumed) >= 2
             /\ ~AsMapOfLists(Len(consumed) - 1).ok
             /\ ~AsListOfMaps(Len(consumed) - 1).ok

\* A strict map-of-lists run that failed on a long second data line, on
\* which the list-of-maps accumulator fails with the same error.
C18_Witness ==
    /\ result.tag = "MapOfLists"
    /\ OverflowFailed
    /\ Len(consumed) = 3
    /\ ~AsListOfMaps(2).ok
    /\ AsListOfMaps(2).err = err
    /\ AsListOfMaps(1).ok

(***************************************************************************)
(* C19.  When a strict run succeeds on a header whose column names are     *)
(* pairwise distinct, the result is rectangular: every record has exactly  *)
(* the header's column names as keys; and, if at least one data line was   *)
(* processed, the map of lists has exactly the header's column names as    *)
(* keys and every list has as many values as there were data lines.        *)
(***************************************************************************)
C19_Rectangular ==
    (~allow_anomalies /\ Returned /\ headers # None /\ DistinctNames) =>
        /\ result.tag = "ListOfMaps" =>
             /\ Len(result.value) = Len(consumed) - 1
             /\ \A k \in 1..Len(result.value) :
                    DOMAIN result.value[k] = HeaderNames
        /\ (result.tag = "MapOfLists" /\ Len(consumed) >= 2) =>
             /\ DOMAIN result.value = HeaderNames
             /\ \A c \in DOMAIN result.value :
                    Len(result.value[c]) = Len(consumed) - 1

\* A strict map-of-lists run that wrote the result of two full rows under
\* a header of two different names.
C19_Witness ==
    /\ ~allow_anomalies
    /\ pc = "done"
    /\ result.tag = "MapOfLists"
    /\ headers # None
    /\ NumColumns = 2
    /\ DistinctNames
    /\ Len(consumed) = 3
    /\ DOMAIN result.value = HeaderNames
    /\ \A c \in HeaderNames : Len(result.value[c]) = 2

====
